---- MODULE Spec2Model ----
(***************************************************************************)
(* Retrieval pipeline of the oral-history guide chatbot.                   *)
(*                                                                         *)
(*   src/server.js         AISearchEngine (load, similarity query,         *)
(*                         aggregation, page ranges) and the chat route    *)
(*   src/unnamed/part_000  DocumentProcessor (chunking, embedding batches) *)
(*                                                                         *)
(* JavaScript values that the code inspects dynamically (null/undefined,   *)
(* "is it an array") are records [t, v]: t is the kind of the value and v  *)
(* its elements when it is an array.                                       *)
(*                                                                         *)
(* A similarity score is the exact rational [n, d] (d > 0, lowest terms)   *)
(* equal to the signed square of the cosine: sign(dot) * dot^2 /           *)
(* (|a|^2 * |b|^2).  It is the cosine with the two square roots removed; x *)
(* |-> sign(x) * x^2 is a strictly increasing bijection of [-1,1] that     *)
(* fixes -1, 0 and 1, so every comparison, maximum and ordering of scores  *)
(* is the one the code computes on the cosines themselves.                 *)
(***************************************************************************)
EXTENDS Integers, Sequences, FiniteSets, TLC

VARIABLES
    artifact,       \* embeddings.json as found on disk
    catalogFile,    \* metadata.csv as found on disk
    embeddings,     \* AISearchEngine.embeddings
    texts,          \* AISearchEngine.texts
    chunkMetadata,  \* AISearchEngine.chunkMetadata
    metadata,       \* AISearchEngine.metadata (catalog: document id -> record)
    initStatus,     \* the promise of searchEngine.initialize()
    call,           \* the last engine call made and its arguments
    result,         \* what that call returned or threw
    pagesArg,       \* createPageRanges: the argument of a direct call
    pageRanges,     \* createPageRanges: what the call returned
    pagesDone,      \* createPageRanges: the call has returned
    documents,      \* splitIntoChunks: the pages read from the PDF files
    maxTokens,      \* splitIntoChunks: its second argument
    chunks,         \* splitIntoChunks: what the call returned
    chunksDone,     \* splitIntoChunks: the call has returned
    embChunks,      \* generateEmbeddings: its argument, the chunks to embed
    failing,        \* the chunks (by position) whose embedding request fails
    batchStart,     \* generateEmbeddings: i, the 0-based start of the batch
    pending,        \* the chunks whose request is in flight
    batchResults,   \* what the settled requests of the batch resolved to
    embOut,         \* generateEmbeddings: its local embeddings, then returned
    embPc,          \* where generateEmbeddings stands
    issued,         \* how many requests have been issued for each chunk
    pauses,         \* how many one-second pauses the run has taken
    sessions,       \* the Map sessions: session id -> conversation history
    requests,       \* the POST /api/chat requests: where each handler stands
    written,        \* for each session, the requests that have stored a
                    \* history for it, in the order of their sessions.set
    together        \* the pairs of requests of one session that have been
                    \* in flight at the same time

engineVars == <<artifact, catalogFile, embeddings, texts, chunkMetadata,
                metadata, initStatus, call, result>>
pageVars == <<pagesArg, pageRanges, pagesDone>>
chunkVars == <<documents, maxTokens, chunks, chunksDone>>
embedVars == <<embChunks, failing, batchStart, pending, batchResults, embOut,
               embPc, issued, pauses>>
chatVars == <<sessions, requests, written, together>>

(***************************************************************************)
(* Bounds of the model.                                                    *)
(***************************************************************************)
MaxCorpus == 6      \* entries of a corpus in the ranking and corrupted families
MaxBad == 2         \* corrupted entries of a corpus in the corrupted family
MaxAggCorpus == 4   \* entries of a corpus in the aggregation and self-query
                    \* families
MaxPage == 11       \* highest page number handed to createPageRanges
MaxPages == 2       \* pages handed to splitIntoChunks
MaxParas == 4       \* paragraphs on those pages, all pages together
MaxExtra == 2       \* chunks to embed: up to MaxExtra, or a batch and up to
                    \* MaxExtra more
MaxRequests == 4    \* POST /api/chat requests received
MaxInFlight == 2    \* requests being handled at the same time

(***************************************************************************)
(* JavaScript values.                                                      *)
(***************************************************************************)
JSNull == [t |-> "null", v |-> <<>>]        \* null or undefined
JSOther == [t |-> "other", v |-> <<>>]      \* a truthy value that is no array
Arr(s) == [t |-> "array", v |-> s]
Truthy(x) == x.t # "null"
IsArray(x) == x.t = "array"

SeqsUpTo(S, n) == UNION {[1..m -> S] : m \in 0..n}

Min(a, b) == IF a < b THEN a ELSE b
Abs(x) == IF x < 0 THEN -x ELSE x

RECURSIVE GCD(_, _)
GCD(a, b) == IF b = 0 THEN a ELSE GCD(b, a % b)

(***************************************************************************)
(* Scores: exact rationals, see the head of the module.                    *)
(***************************************************************************)
Sgn(x) == IF x < 0 THEN -1 ELSE IF x > 0 THEN 1 ELSE 0
Rat(n, d) == LET g == GCD(Abs(n), d) IN [n |-> n \div g, d |-> d \div g]
Zero == [n |-> 0, d |-> 1]
NaN == [n |-> 0, d |-> 0]                   \* 0/0: a zero-length vector
RatLess(a, b) == a.n * b.d < b.n * a.d
RatMax(a, b) == IF RatLess(a, b) THEN b ELSE a      \* Math.max(a, b)

\* vecA.reduce((sum, a, i) => sum + a * vecB[i], 0), for a vecB at least as
\* long as vecA
DotProduct(vecA, vecB) ==
    LET acc[i \in 0..Len(vecA)] ==
            IF i = 0 THEN 0 ELSE acc[i - 1] + vecA[i] * vecB[i]
    IN acc[Len(vecA)]

\* (mutant) the dot product not divided by the two norms
cosineSimilarityNoNorms(vecA, vecB) ==
    IF Len(vecA) > Len(vecB) THEN NaN
    ELSE LET dotProduct == DotProduct(vecA, vecB)
         IN Rat(Sgn(dotProduct) * dotProduct * dotProduct, 1)

\* When vecB is shorter than vecA the dot product reads an undefined
\* component and is NaN; so is 0/0.
cosineSimilarity(vecA, vecB) ==
    IF Len(vecA) > Len(vecB) THEN NaN
    ELSE LET dotProduct == DotProduct(vecA, vecB)
             normA2 == DotProduct(vecA, vecA)
             normB2 == DotProduct(vecB, vecB)
         IN IF normA2 * normB2 = 0 THEN NaN
            ELSE Rat(Sgn(dotProduct) * dotProduct * dotProduct, normA2 * normB2)

(***************************************************************************)
(* Array.prototype.sort(compare) is a stable sort: x goes before the first *)
(* element it is strictly ordered before.  The three compare callbacks of  *)
(* the code are named; Before(order, x, y) is compare(x, y) < 0.           *)
(***************************************************************************)
\* (a, b) => b.score - a.score
ByScoreDesc(a, b) == RatLess(b.score, a.score)
\* (a, b) => b.highestScore - a.highestScore
ByHighestScoreDesc(a, b) == RatLess(b.highestScore, a.highestScore)
\* (a, b) => a - b
ByPageAsc(a, b) == a < b

Before(order, x, y) ==
    CASE order = "scoreDesc" -> ByScoreDesc(x, y)
      [] order = "highestScoreDesc" -> ByHighestScoreDesc(x, y)
      [] order = "pageAsc" -> ByPageAsc(x, y)

InsertSorted(sorted, x, order) ==
    LET pos == IF \E j \in 1..Len(sorted) : Before(order, x, sorted[j])
               THEN CHOOSE j \in 1..Len(sorted) :
                        /\ Before(order, x, sorted[j])
                        /\ \A m \in 1..(j - 1) : ~Before(order, x, sorted[m])
               ELSE Len(sorted) + 1
    IN SubSeq(sorted, 1, pos - 1) \o <<x>> \o SubSeq(sorted, pos, Len(sorted))

StableSort(s, order) ==
    LET ins[i \in 0..Len(s)] ==
            IF i = 0 THEN <<>> ELSE InsertSorted(ins[i - 1], s[i], order)
    IN ins[Len(s)]

Slice(s, k) == SubSeq(s, 1, Min(k, Len(s)))         \* s.slice(0, k)

(***************************************************************************)
(* AISearchEngine.findSimilarContent                                       *)
(***************************************************************************)
TopK == 5
NoSource == ""                              \* an absent or empty source
EmptyMeta == [source |-> NoSource, page |-> 0]      \* {}
NullHit == [score |-> Zero, text |-> 0, metadata |-> EmptyMeta, idx |-> 0]

\* (mutant) the callback without the comparison of the two lengths
ScoreEntryAnyLength(queryEmbedding, idx) ==
    LET emb == embeddings[idx]
    IN IF ~Truthy(emb) \/ ~IsArray(emb)
       THEN NullHit
       ELSE [score |-> cosineSimilarity(queryEmbedding.v, emb.v),
             text |-> IF idx <= Len(texts) THEN texts[idx] ELSE 0,
             metadata |-> IF idx <= Len(chunkMetadata)
                          THEN chunkMetadata[idx] ELSE EmptyMeta,
             idx |-> idx]

\* the callback of this.embeddings.map; idx is the position in the corpus
\* (1-based here), kept in the hit so that properties can name the entry
ScoreEntry(queryEmbedding, idx) ==
    LET emb == embeddings[idx]
    IN IF ~Truthy(emb) \/ ~IsArray(emb) \/ Len(emb.v) # Len(queryEmbedding.v)
       THEN NullHit
       ELSE [score |-> cosineSimilarity(queryEmbedding.v, emb.v),
             text |-> IF idx <= Len(texts) THEN texts[idx] ELSE 0,
             metadata |-> IF idx <= Len(chunkMetadata)
                          THEN chunkMetadata[idx] ELSE EmptyMeta,
             idx |-> idx]

FilterBySource(similarities, sourceName) ==
    IF sourceName # NoSource
    THEN SelectSeq(similarities, LAMBDA item : item.metadata.source = sourceName)
    ELSE similarities

RankAndCut(results) == Slice(StableSort(results, "scoreDesc"), TopK)

\* (mutant) the source filter applied to the top k instead of before the cut
findSimilarContentCutFirst(queryEmbedding, sourceName) ==
    IF Len(embeddings) = 0 THEN <<>>
    ELSE IF ~Truthy(queryEmbedding) \/ ~IsArray(queryEmbedding) THEN <<>>
    ELSE LET mapped == [idx \in 1..Len(embeddings) |->
                            ScoreEntry(queryEmbedding, idx)]
             similarities == SelectSeq(mapped, LAMBDA item : item # NullHit)
         IN FilterBySource(RankAndCut(similarities), sourceName)

findSimilarContent(queryEmbedding, sourceName) ==
    IF Len(embeddings) = 0 THEN <<>>
    ELSE IF ~Truthy(queryEmbedding) \/ ~IsArray(queryEmbedding) THEN <<>>
    ELSE LET mapped == [idx \in 1..Len(embeddings) |->
                            ScoreEntry(queryEmbedding, idx)]
             similarities == SelectSeq(mapped, LAMBDA item : item # NullHit)
         IN RankAndCut(FilterBySource(similarities, sourceName))

(***************************************************************************)
(* AISearchEngine.createPageRanges.  A token is the page itself (kind      *)
(* "page") or the string `${from}-${to}` (kind "range").                   *)
(***************************************************************************)
PageToken(n) == [kind |-> "page", from |-> n, to |-> n]
RangeToken(a, b) == [kind |-> "range", from |-> a, to |-> b]

\* the body of the for loop, at (1-based) position i of pages; st holds the
\* loop's ranges, rangeStart and prev
RangeStep(pages, st, i) ==
    LET atEnd == i = Len(pages) + 1
        close == atEnd \/ pages[i] # st.prev + 1
        pushed == IF ~close THEN st.ranges
                  ELSE IF st.rangeStart = st.prev
                       THEN Append(st.ranges, PageToken(st.rangeStart))
                       ELSE Append(st.ranges, RangeToken(st.rangeStart, st.prev))
    IN [ranges |-> pushed,
        rangeStart |-> IF close /\ ~atEnd THEN pages[i] ELSE st.rangeStart,
        prev |-> IF ~atEnd THEN pages[i] ELSE st.prev]

\* (mutant) the loop ended at i < pages.length: the last run is never pushed
createPageRangesNoLast(pages) ==
    IF Len(pages) = 0 THEN <<>>
    ELSE LET loop[i \in 1..Len(pages)] ==
                 IF i = 1
                 THEN [ranges |-> <<>>, rangeStart |-> pages[1], prev |-> pages[1]]
                 ELSE RangeStep(pages, loop[i - 1], i)
         IN loop[Len(pages)].ranges

createPageRanges(pages) ==
    IF Len(pages) = 0 THEN <<>>
    ELSE LET loop[i \in 1..(Len(pages) + 1)] ==
                 IF i = 1
                 THEN [ranges |-> <<>>, rangeStart |-> pages[1], prev |-> pages[1]]
                 ELSE RangeStep(pages, loop[i - 1], i)
         IN loop[Len(pages) + 1].ranges

(***************************************************************************)
(* AISearchEngine.findRelevantContext: the aggregation of the hits.        *)
(***************************************************************************)
MaxDocs == 2
MaxChunksPerDoc == 3
Unknown == "Unknown"

\* The sources of the model and the document id the pattern
\* /document(\d+)\.pdf/ extracts from each (0: no match).
SourceNames == <<"document1.pdf", "document2.pdf", "document3.pdf">>
OtherSource == "notes.txt"
DocIdOf(source) ==
    IF \E i \in 1..Len(SourceNames) : SourceNames[i] = source
    THEN CHOOSE i \in 1..Len(SourceNames) : SourceNames[i] = source
    ELSE 0

\* metadata?.name || 'Unknown'
DisplayName(docId) ==
    IF docId \in DOMAIN metadata /\ metadata[docId].name # ""
    THEN metadata[docId].name ELSE Unknown

InitialHighestScore == Zero

\* the callback of similarContent.forEach, on the groups built so far
AddHit(resultsByDoc, item) ==
    LET docId == DocIdOf(item.metadata.source)
        old == IF docId \in DOMAIN resultsByDoc
               THEN resultsByDoc[docId]
               ELSE [id |-> docId, name |-> DisplayName(docId),
                     chunks |-> <<>>, highestScore |-> InitialHighestScore]
        new == [old EXCEPT
                  !.chunks = Append(@, [text |-> item.text,
                                        page |-> item.metadata.page,
                                        score |-> item.score]),
                  !.highestScore = RatMax(@, item.score)]
    IN IF item.metadata.source = NoSource \/ docId = 0 THEN resultsByDoc
       ELSE [d \in DOMAIN resultsByDoc \cup {docId} |->
                IF d = docId THEN new ELSE resultsByDoc[d]]

GroupByDoc(similarContent) ==
    LET grp[i \in 0..Len(similarContent)] ==
            IF i = 0 THEN <<>> ELSE AddHit(grp[i - 1], similarContent[i])
    IN grp[Len(similarContent)]

\* Object.values of an object whose keys are integers: ascending key order
ObjectValues(obj) ==
    LET keys == DOMAIN obj
        nth[i \in 1..Cardinality(keys)] ==
            CHOOSE k \in keys : Cardinality({j \in keys : j < k}) = i - 1
    IN [i \in 1..Cardinality(keys) |-> obj[nth[i]]]

\* [...new Set(s)]: the distinct elements, each at its first occurrence
Distinct(s) ==
    LET keep[i \in 0..Len(s)] ==
            IF i = 0 THEN <<>>
            ELSE IF \E j \in 1..(i - 1) : s[j] = s[i] THEN keep[i - 1]
            ELSE Append(keep[i - 1], s[i])
    IN keep[Len(s)]

\* (mutant) every chunk of the document kept
TopChunksAll(doc) == StableSort(doc.chunks, "scoreDesc")

TopChunks(doc) == Slice(StableSort(doc.chunks, "scoreDesc"), MaxChunksPerDoc)

\* the callback of .map(doc => ...); text is the list of chunk texts that
\* join('\n\n') concatenates, in that order
EmitDoc(doc) ==
    LET topChunks == TopChunks(doc)
        pages == StableSort(Distinct([i \in 1..Len(topChunks) |-> topChunks[i].page]),
                            "pageAsc")
    IN [id |-> doc.id,
        name |-> doc.name,
        pages |-> createPageRanges(pages),
        relevanceScore |-> doc.highestScore,
        text |-> [i \in 1..Len(topChunks) |-> topChunks[i].text]]

TopDocs(groups) == Slice(StableSort(groups, "highestScoreDesc"), MaxDocs)

Aggregate(similarContent) ==
    IF Len(similarContent) = 0 THEN <<>>
    ELSE LET kept == TopDocs(ObjectValues(GroupByDoc(similarContent)))
         IN [i \in 1..Len(kept) |-> EmitDoc(kept[i])]

(***************************************************************************)
(* The files the service starts from.                                      *)
(***************************************************************************)
Vec(s) == Arr(s)
Meta(source, page) == [source |-> source, page |-> page]
Entry(emb, source, page) == [emb |-> emb, meta |-> Meta(source, page)]

\* An artifact as saveEmbeddings writes it: the three containers aligned,
\* the text of the chunk at position i being i.
AlignedArtifact(entries) ==
    [file |-> "ok",
     embeddings |-> Arr([i \in 1..Len(entries) |-> entries[i].emb]),
     texts |-> Arr([i \in 1..Len(entries) |-> i]),
     metadata |-> Arr([i \in 1..Len(entries) |-> entries[i].meta])]

UnreadableArtifact(how) ==
    [file |-> how, embeddings |-> JSNull, texts |-> JSNull, metadata |-> JSNull]

Catalog(records) == [file |-> "ok", records |-> records]
MissingCatalog == [file |-> "missing", records |-> <<>>]
TwoNames == <<[name |-> "Ann"], [name |-> "Bob"]>>

\* ranking family: valid vectors, two sources, scores that differ and tie
RankEntries ==
    {Entry(Vec(<<1, 0>>), SourceNames[1], 1),
     Entry(Vec(<<1, 1>>), SourceNames[2], 1),
     Entry(Vec(<<0, 1>>), SourceNames[1], 2)}

\* corrupted family: entries that are missing, no list, or of another
\* dimensionality, among valid ones
CorruptEntries ==
    {Entry(Vec(<<1, 0>>), SourceNames[1], 1),
     Entry(Vec(<<1>>), SourceNames[1], 1),
     Entry(JSNull, SourceNames[1], 1),
     Entry(JSOther, SourceNames[1], 1)}

\* aggregation family: three documents and a source that names none,
\* scores on both sides of zero, several pages
AggEntries ==
    {Entry(Vec(<<-1, 0>>), SourceNames[1], 1),
     Entry(Vec(<<-1, 1>>), SourceNames[1], 2),
     Entry(Vec(<<1, 1>>), SourceNames[2], 4),
     Entry(Vec(<<-1, 1>>), SourceNames[3], 2),
     Entry(Vec(<<1, 0>>), OtherSource, 1)}

\* self-query family: equal vectors, vectors of the same direction, of
\* another direction and of another dimensionality
SelfEntries ==
    {Entry(Vec(<<1, 0>>), SourceNames[1], 1),
     Entry(Vec(<<2, 0>>), SourceNames[1], 2),
     Entry(Vec(<<1, 1>>), SourceNames[2], 1),
     Entry(Vec(<<1>>), SourceNames[2], 2)}

RankArtifacts == {AlignedArtifact(es) : es \in SeqsUpTo(RankEntries, MaxCorpus)}
SelfArtifacts == {AlignedArtifact(es) : es \in SeqsUpTo(SelfEntries, MaxAggCorpus)}
BadCount(es) == Cardinality({i \in 1..Len(es) : es[i].emb # Vec(<<1, 0>>)})
CorruptArtifacts ==
    {AlignedArtifact(es) :
        es \in {c \in SeqsUpTo(CorruptEntries, MaxCorpus) : BadCount(c) <= MaxBad}}
AggArtifacts == {AlignedArtifact(es) : es \in SeqsUpTo(AggEntries, MaxAggCorpus)}

\* load family: every way the two files can be absent, unparsable or
\* incomplete, over corpora of at most two entries
LoadArtifacts ==
    {UnreadableArtifact("missing"), UnreadableArtifact("unparsable")}
    \cup
    {[AlignedArtifact(es) EXCEPT !.embeddings = e] :
        es \in SeqsUpTo({Entry(Vec(<<1, 0>>), SourceNames[1], 1)}, 2),
        e \in {JSNull, JSOther}}
    \cup
    {[AlignedArtifact(es) EXCEPT
         !.texts = IF noTexts THEN JSNull ELSE @,
         !.metadata = IF noMeta THEN JSNull ELSE @] :
        es \in SeqsUpTo({Entry(Vec(<<1, 0>>), SourceNames[1], 1)}, 2),
        noTexts \in BOOLEAN, noMeta \in BOOLEAN}
LoadCatalogs == {Catalog(TwoNames), Catalog(<<>>), MissingCatalog}

\* what the embedding provider or a caller hands to the engine as a query
QueryVectors == {Vec(<<1, 0>>), Vec(<<-1, 0>>)}
QueryValues == QueryVectors \cup {JSNull}
ProviderOutcomes ==
    {[ok |-> TRUE, embedding |-> q] : q \in QueryVectors}
    \cup {[ok |-> FALSE, embedding |-> JSNull]}
SourceFilters == {NoSource, SourceNames[1]}

NoCall == [op |-> "none", queryEmbedding |-> JSNull, sourceName |-> NoSource]
NoResult == [kind |-> "none", value |-> <<>>]
Returned(v) == [kind |-> "ok", value |-> v]
Thrown == [kind |-> "error", value |-> <<>>]

\* the engine as its constructor leaves it
Constructed ==
    /\ embeddings = <<>>
    /\ texts = <<>>
    /\ chunkMetadata = <<>>
    /\ metadata = <<>>
    /\ initStatus = "pending"
    /\ call = NoCall
    /\ result = NoResult

\* no run of generateEmbeddings is being made
EmbedIdle ==
    /\ embChunks = <<>>
    /\ failing = {}
    /\ batchStart = 0
    /\ pending = {}
    /\ batchResults = <<>>
    /\ embOut = <<>>
    /\ embPc = "idle"
    /\ issued = <<>>
    /\ pauses = 0

\* no request has been received: const sessions = new Map()
SessionIds == {"s1", "s2"}
NoHistory == [set |-> FALSE, history |-> <<>>]
NewRequest == [pc |-> "new", sessionId |-> "", sessionHistory |-> <<>>,
               response |-> 0]
ChatIdle ==
    /\ sessions = [s \in SessionIds |-> NoHistory]
    /\ requests = <<>>
    /\ written = [s \in SessionIds |-> <<>>]
    /\ together = {}

\* no run of splitIntoChunks is being made
ChunkerIdle ==
    /\ documents = <<>>
    /\ maxTokens = 0
    /\ chunks = <<>>
    /\ chunksDone = FALSE

\* no direct call of createPageRanges is being made
PagesIdle ==
    /\ pagesArg = <<>>
    /\ pageRanges = <<>>
    /\ pagesDone = FALSE

\* default family: artifacts that fail to load, load incompletely, or hold
\* corrupted entries
InitEngine ==
    /\ \/ artifact \in CorruptArtifacts /\ catalogFile = Catalog(TwoNames)
       \/ artifact \in LoadArtifacts /\ catalogFile \in LoadCatalogs
    /\ Constructed
    /\ PagesIdle
    /\ ChunkerIdle
    /\ EmbedIdle
    /\ ChatIdle

InitRank ==
    /\ artifact \in RankArtifacts
    /\ catalogFile = Catalog(TwoNames)
    /\ Constructed
    /\ PagesIdle
    /\ ChunkerIdle
    /\ EmbedIdle
    /\ ChatIdle

InitAgg ==
    /\ artifact \in AggArtifacts
    /\ catalogFile = Catalog(TwoNames)
    /\ Constructed
    /\ PagesIdle
    /\ ChunkerIdle
    /\ EmbedIdle
    /\ ChatIdle

InitSelf ==
    /\ artifact \in SelfArtifacts
    /\ catalogFile = Catalog(TwoNames)
    /\ Constructed
    /\ PagesIdle
    /\ ChunkerIdle
    /\ EmbedIdle
    /\ ChatIdle

(***************************************************************************)
(* AISearchEngine.initialize, run once when the module is loaded; it has   *)
(* no await, so no request is served before it has returned or thrown.     *)
(***************************************************************************)
\* data.texts || [] and data.metadata || []
OrEmpty(x) == IF Truthy(x) THEN x.v ELSE <<>>

\* records.forEach((record, index) => this.metadata.set(index + 1, record))
LoadCatalog(records) == [i \in 1..Len(records) |-> records[i]]

Initialize ==
    /\ initStatus = "pending"
    /\ call' = [NoCall EXCEPT !.op = "initialize"]
    /\ UNCHANGED <<artifact, catalogFile, pageVars, chunkVars, embedVars, chatVars>>
    /\ IF artifact.file # "ok"
          \/ ~Truthy(artifact.embeddings) \/ ~IsArray(artifact.embeddings)
       THEN /\ initStatus' = "rejected"
            /\ result' = Thrown
            /\ UNCHANGED <<embeddings, texts, chunkMetadata, metadata>>
       ELSE /\ embeddings' = artifact.embeddings.v
            /\ texts' = OrEmpty(artifact.texts)
            /\ chunkMetadata' = OrEmpty(artifact.metadata)
            /\ IF catalogFile.file # "ok"
               THEN /\ initStatus' = "rejected"
                    /\ result' = Thrown
                    /\ UNCHANGED metadata
               ELSE /\ initStatus' = "resolved"
                    /\ result' = Returned(<<>>)
                    /\ metadata' = LoadCatalog(catalogFile.records)

(***************************************************************************)
(* A call of findSimilarContent, and a call of findRelevantContext (the    *)
(* one POST /api/chat makes); the embedding provider may fail.             *)
(***************************************************************************)
\* (mutant) the ranking sorts this.embeddings itself, in place
FindSimilarContentSortsCorpus ==
    /\ initStatus # "pending"
    /\ \E q \in QueryValues, src \in SourceFilters :
          /\ call' = [op |-> "findSimilarContent", queryEmbedding |-> q,
                      sourceName |-> src]
          /\ result' = Returned(findSimilarContent(q, src))
          /\ embeddings' =
                IF ~IsArray(q) THEN embeddings
                ELSE LET ranked == StableSort([idx \in 1..Len(embeddings) |->
                                                  ScoreEntry(q, idx)], "scoreDesc")
                     IN [k \in 1..Len(embeddings) |->
                            IF ranked[k].idx = 0 THEN embeddings[k]
                            ELSE embeddings[ranked[k].idx]]
    /\ UNCHANGED <<artifact, catalogFile, texts, chunkMetadata,
                   metadata, initStatus, pageVars, chunkVars, embedVars, chatVars>>

FindSimilarContent ==
    /\ initStatus # "pending"
    /\ \E q \in QueryValues, src \in SourceFilters :
          /\ call' = [op |-> "findSimilarContent", queryEmbedding |-> q,
                      sourceName |-> src]
          /\ result' = Returned(findSimilarContent(q, src))
    /\ UNCHANGED <<artifact, catalogFile, embeddings, texts, chunkMetadata,
                   metadata, initStatus, pageVars, chunkVars, embedVars, chatVars>>

\* a call of findSimilarContent with the stored vector of an entry as the
\* query and no source name
QueryOwnVector ==
    /\ initStatus # "pending"
    /\ \E i \in 1..Len(embeddings) :
          /\ IsArray(embeddings[i])
          /\ call' = [op |-> "findSimilarContent",
                      queryEmbedding |-> embeddings[i], sourceName |-> NoSource]
          /\ result' = Returned(findSimilarContent(embeddings[i], NoSource))
    /\ UNCHANGED <<artifact, catalogFile, embeddings, texts, chunkMetadata,
                   metadata, initStatus, pageVars, chunkVars, embedVars, chatVars>>

findRelevantContext(questionEmbedding) ==
    Aggregate(findSimilarContent(questionEmbedding, NoSource))

FindRelevantContext ==
    /\ initStatus # "pending"
    /\ \E reply \in ProviderOutcomes :       \* await this.getEmbedding(question)
          /\ call' = [op |-> "findRelevantContext",
                      queryEmbedding |-> reply.embedding, sourceName |-> NoSource]
          /\ result' = IF ~reply.ok THEN Thrown
                       ELSE Returned(findRelevantContext(reply.embedding))
    /\ UNCHANGED <<artifact, catalogFile, embeddings, texts, chunkMetadata,
                   metadata, initStatus, pageVars, chunkVars, embedVars, chatVars>>

(***************************************************************************)
(* createPageRanges called on its own, on an ascending list of distinct    *)
(* pages (what findRelevantContext hands it: a Set's elements, sorted).    *)
(***************************************************************************)
\* the elements of a set of numbers, ascending
Ascending(S) ==
    [i \in 1..Cardinality(S) |->
        CHOOSE k \in S : Cardinality({j \in S : j < k}) = i - 1]

InitPages ==
    /\ artifact = AlignedArtifact(<<>>)
    /\ catalogFile = Catalog(<<>>)
    /\ Constructed
    /\ pagesArg \in {Ascending(S) : S \in SUBSET (1..MaxPage)}
    /\ pageRanges = <<>>
    /\ pagesDone = FALSE
    /\ ChunkerIdle
    /\ EmbedIdle
    /\ ChatIdle

CreatePageRanges ==
    /\ ~pagesDone
    /\ pageRanges' = createPageRanges(pagesArg)
    /\ pagesDone' = TRUE
    /\ UNCHANGED <<engineVars, pagesArg, chunkVars, embedVars, chatVars>>

(***************************************************************************)
(* DocumentProcessor.splitIntoChunks.                                      *)
(*                                                                         *)
(* A text is a sequence of pieces: a paragraph (named by its page and its  *)
(* position on the page, with the number of tokens the tokenizer gives it) *)
(* or the newline that joins two pieces.  A page is given as the list of   *)
(* paragraphs that doc.text.split(/\n\s*\n/) yields, each already trimmed; *)
(* a paragraph of no tokens is one that is empty once trimmed.  The        *)
(* tokenizer splits at a newline that is followed by text, so encode       *)
(* counts the tokens of each paragraph plus one per joining newline.       *)
(***************************************************************************)
NL == [doc |-> 0, para |-> 0, size |-> 1]
Para(d, p, size) == [doc |-> d, para |-> p, size |-> size]
IsPara(piece) == piece.doc # 0

\* encode(text).length
EncodeLength(text) ==
    LET sum[i \in 0..Len(text)] ==
            IF i = 0 THEN 0 ELSE sum[i - 1] + text[i].size
    IN sum[Len(text)]

\* text.trim(): newlines at either end removed
Trim(text) ==
    LET paras == {i \in 1..Len(text) : IsPara(text[i])}
    IN IF paras = {} THEN <<>>
       ELSE SubSeq(text,
                   CHOOSE i \in paras : \A j \in paras : i <= j,
                   CHOOSE i \in paras : \A j \in paras : j <= i)

MakeChunk(doc, currentChunk) ==
    [text |-> Trim(currentChunk),
     source |-> doc.title,
     page |-> doc.page,
     tokens |-> EncodeLength(currentChunk)]

\* (mutant) the size test made on the buffer instead of on the buffer with
\* the paragraph appended
ParagraphStepLate(doc, d, limit, st, p) ==
    LET trimmedParagraph == <<Para(d, p, doc.paragraphs[p])>>
        potentialChunk == st.currentChunk \o <<NL>> \o trimmedParagraph
        tokenCount == EncodeLength(st.currentChunk)
    IN IF doc.paragraphs[p] = 0 THEN st
       ELSE IF tokenCount > limit /\ st.currentChunk # <<>>
       THEN [chunks |-> Append(st.chunks, MakeChunk(doc, st.currentChunk)),
             currentChunk |-> trimmedParagraph]
       ELSE [chunks |-> st.chunks, currentChunk |-> potentialChunk]

\* the body of the loop over the paragraphs of page d, at paragraph p; st
\* holds chunks and currentChunk
ParagraphStep(doc, d, limit, st, p) ==
    LET trimmedParagraph == <<Para(d, p, doc.paragraphs[p])>>
        potentialChunk == st.currentChunk \o <<NL>> \o trimmedParagraph
        tokenCount == EncodeLength(potentialChunk)
    IN IF doc.paragraphs[p] = 0 THEN st
       ELSE IF tokenCount > limit /\ st.currentChunk # <<>>
       THEN [chunks |-> Append(st.chunks, MakeChunk(doc, st.currentChunk)),
             currentChunk |-> trimmedParagraph]
       ELSE [chunks |-> st.chunks, currentChunk |-> potentialChunk]

\* (mutant) currentChunk declared outside the loop over the pages: the
\* buffer of a page is still there when the next page starts
PageStepCarryOver(docs, limit, st, d) ==
    LET doc == docs[d]
        loop[p \in 0..Len(doc.paragraphs)] ==
            IF p = 0 THEN st
            ELSE ParagraphStep(doc, d, limit, loop[p - 1], p)
        last == loop[Len(doc.paragraphs)]
    IN IF Trim(last.currentChunk) # <<>>
       THEN [last EXCEPT !.chunks = Append(@, MakeChunk(doc, last.currentChunk))]
       ELSE last

\* the body of the loop over the pages, at page d: the buffer starts empty
\* and what is left in it after the last paragraph is pushed
PageStep(docs, limit, st, d) ==
    LET doc == docs[d]
        loop[p \in 0..Len(doc.paragraphs)] ==
            IF p = 0 THEN [chunks |-> st.chunks, currentChunk |-> <<>>]
            ELSE ParagraphStep(doc, d, limit, loop[p - 1], p)
        last == loop[Len(doc.paragraphs)]
    IN IF Trim(last.currentChunk) # <<>>
       THEN [last EXCEPT !.chunks = Append(@, MakeChunk(doc, last.currentChunk))]
       ELSE last

splitIntoChunks(docs, limit) ==
    LET loop[d \in 0..Len(docs)] ==
            IF d = 0 THEN [chunks |-> <<>>, currentChunk |-> <<>>]
            ELSE PageStep(docs, limit, loop[d - 1], d)
    IN loop[Len(docs)].chunks

\* readDocuments: the pages of the files in order, two pages to a file,
\* pages numbered from 1 within their file
PageRecord(i, paragraphs) ==
    [title |-> SourceNames[(i + 1) \div 2],
     page |-> ((i - 1) % 2) + 1,
     paragraphs |-> paragraphs]

ParaSizes == {0, 1, 3, 5}
TokenLimits == {3, 4}

\* the pages that hold the paragraphs flat, paragraph i on page pageOf[i]
Paginate(flat, pageOf, np) ==
    [d \in 1..np |->
        PageRecord(d, LET mine == Ascending({i \in 1..Len(flat) : pageOf[i] = d})
                      IN [k \in 1..Len(mine) |-> flat[mine[k]]])]

\* the ways to lay n paragraphs out on np pages, in order
Layouts(n, np) ==
    {g \in [1..n -> 1..np] : \A i, j \in 1..n : i <= j => g[i] <= g[j]}

InitChunker ==
    /\ artifact = AlignedArtifact(<<>>)
    /\ catalogFile = Catalog(<<>>)
    /\ Constructed
    /\ PagesIdle
    /\ \E np \in 0..MaxPages, flat \in SeqsUpTo(ParaSizes, MaxParas) :
          \E pageOf \in Layouts(Len(flat), np) :
             documents = Paginate(flat, pageOf, np)
    /\ maxTokens \in TokenLimits
    /\ chunks = <<>>
    /\ chunksDone = FALSE
    /\ EmbedIdle
    /\ ChatIdle

SplitIntoChunks ==
    /\ ~chunksDone
    /\ chunks' = splitIntoChunks(documents, maxTokens)
    /\ chunksDone' = TRUE
    /\ UNCHANGED <<engineVars, pageVars, documents, maxTokens, embedVars, chatVars>>

(***************************************************************************)
(* DocumentProcessor.generateEmbeddings.                                   *)
(*                                                                         *)
(* The chunk at position i of the argument has text i.  Which requests     *)
(* fail is the provider's choice, made when the run starts.  The requests  *)
(* of a batch are issued together (the callbacks of batch.map run up to    *)
(* their await) and settle one at a time; the model lets the lowest or the *)
(* highest request in flight settle next.                                  *)
(***************************************************************************)
batchSize == 20

ChunkAt(i) == [text |-> i, source |-> SourceNames[1], page |-> i, tokens |-> 1]

\* the vector the provider returns for a text: it names the text
EmbeddingOf(text) == <<text>>

NullResult == [embedding |-> <<>>, metadata |-> ChunkAt(0)]     \* null

\* what the callback of batch.map resolves to for a chunk
RequestResult(chunk, ok) ==
    IF ok
    THEN [embedding |-> EmbeddingOf(chunk.text),
          metadata |-> [text |-> chunk.text, source |-> chunk.source,
                        page |-> chunk.page, tokens |-> chunk.tokens]]
    ELSE NullResult

\* (mutant) one failed request costs its whole batch
KeepSucceededOrNone(results) ==
    IF \E k \in 1..Len(results) : results[k] = NullResult THEN <<>>
    ELSE results

\* batchResults.filter(res => res !== null)
KeepSucceeded(results) == SelectSeq(results, LAMBDA res : res # NullResult)

\* batch = chunks.slice(i, i + batchSize), as positions in chunks
BatchOf(i) == (i + 1)..Min(i + batchSize, Len(embChunks))

ChunkCounts == (0..MaxExtra) \cup (batchSize..(batchSize + MaxExtra))
Suspects == {1, 2, batchSize, batchSize + 1}

InitEmbed ==
    /\ artifact = AlignedArtifact(<<>>)
    /\ catalogFile = Catalog(<<>>)
    /\ Constructed
    /\ PagesIdle
    /\ ChunkerIdle
    /\ \E n \in ChunkCounts : embChunks = [i \in 1..n |-> ChunkAt(i)]
    /\ failing \in {F \cap (1..Len(embChunks)) : F \in SUBSET Suspects}
                    \cup {1..Len(embChunks)}
    /\ batchStart = 0
    /\ pending = {}
    /\ batchResults = <<>>
    /\ embOut = <<>>
    /\ embPc = "loop"
    /\ issued = [i \in 1..Len(embChunks) |-> 0]
    /\ pauses = 0
    /\ ChatIdle

\* the loop test holds: the batch is cut and a request issued for each chunk
StartBatch ==
    /\ embPc = "loop"
    /\ batchStart < Len(embChunks)
    /\ pending' = BatchOf(batchStart)
    /\ issued' = [i \in 1..Len(embChunks) |->
                     IF i \in BatchOf(batchStart) THEN issued[i] + 1 ELSE issued[i]]
    /\ batchResults' = <<>>
    /\ embPc' = "awaitAll"
    /\ UNCHANGED <<embChunks, failing, batchStart, embOut, pauses>>
    /\ UNCHANGED <<engineVars, pageVars, chunkVars, chatVars>>

\* a request settles; its callback returns the pair or catches and returns null
Settle ==
    /\ embPc = "awaitAll"
    /\ \E j \in pending :
          /\ (\A k \in pending : j <= k) \/ (\A k \in pending : k <= j)
          /\ pending' = pending \ {j}
          /\ batchResults' =
                [k \in DOMAIN batchResults \cup {j} |->
                    IF k = j THEN RequestResult(embChunks[j], j \notin failing)
                    ELSE batchResults[k]]
    /\ UNCHANGED <<embChunks, failing, batchStart, embOut, embPc, issued,
                   pauses>>
    /\ UNCHANGED <<engineVars, pageVars, chunkVars, chatVars>>

\* (mutant) the pause taken after every batch, the last one included
JoinBatchAlwaysPause ==
    /\ embPc = "awaitAll"
    /\ pending = {}
    /\ LET order == Ascending(BatchOf(batchStart))
           results == [k \in 1..Len(order) |-> batchResults[order[k]]]
       IN embOut' = embOut \o KeepSucceeded(results)
    /\ embPc' = "pause"
    /\ UNCHANGED <<embChunks, failing, batchStart, pending, batchResults, issued,
                   pauses>>
    /\ UNCHANGED <<engineVars, pageVars, chunkVars, chatVars>>

\* Promise.all resolves: the batch's pairs are pushed in batch order
JoinBatch ==
    /\ embPc = "awaitAll"
    /\ pending = {}
    /\ LET order == Ascending(BatchOf(batchStart))
           results == [k \in 1..Len(order) |-> batchResults[order[k]]]
       IN embOut' = embOut \o KeepSucceeded(results)
    /\ IF batchStart + batchSize < Len(embChunks)
       THEN embPc' = "pause" /\ UNCHANGED batchStart
       ELSE embPc' = "loop" /\ batchStart' = batchStart + batchSize
    /\ UNCHANGED <<embChunks, failing, pending, batchResults, issued, pauses>>
    /\ UNCHANGED <<engineVars, pageVars, chunkVars, chatVars>>

\* the one-second timer between two batches fires
PauseEnd ==
    /\ embPc = "pause"
    /\ batchStart' = batchStart + batchSize
    /\ embPc' = "loop"
    /\ pauses' = pauses + 1
    /\ UNCHANGED <<embChunks, failing, pending, batchResults, embOut, issued>>
    /\ UNCHANGED <<engineVars, pageVars, chunkVars, chatVars>>

\* the loop test fails: return embeddings
ReturnEmbeddings ==
    /\ embPc = "loop"
    /\ batchStart >= Len(embChunks)
    /\ embPc' = "done"
    /\ UNCHANGED <<embChunks, failing, batchStart, pending, batchResults,
                   embOut, issued, pauses>>
    /\ UNCHANGED <<engineVars, pageVars, chunkVars, chatVars>>

NextEmbed == StartBatch \/ Settle \/ JoinBatch \/ PauseEnd \/ ReturnEmbeddings

(***************************************************************************)
(* app.post('/api/chat').  The handler runs up to each of its four awaits  *)
(* in one step; a step of the model is the settling of the awaited promise *)
(* and the code up to the next await.  Any awaited promise may reject: the *)
(* catch answers 500 and nothing is stored.  The question of request r has *)
(* content r, and so has the answer the model gives to it.                 *)
(***************************************************************************)
HistoryLimit == 6

UserTurn(r) == [role |-> "user", content |-> r]
AssistantTurn(r) == [role |-> "assistant", content |-> r]

\* s.slice(-n)
LastN(s, n) == SubSeq(s, IF Len(s) > n THEN Len(s) - n + 1 ELSE 1, Len(s))

\* sessions.get(sessionId) || []
SessionGet(sessionId) == sessions[sessionId].history

\* [...sessionHistory, {user}, {assistant}].slice(-6)
NewHistory(sessionHistory, r) ==
    LastN(sessionHistory \o <<UserTurn(r), AssistantTurn(requests[r].response)>>,
          HistoryLimit)

Awaiting == {"storeQuestion", "findContext", "completion", "storeAnswer"}
InFlight == {r \in DOMAIN requests : requests[r].pc \in Awaiting}

\* the handler has answered: its local variables are gone; the session of
\* a request that stored a history is remembered
Answered(r, status) ==
    [NewRequest EXCEPT !.pc = status,
                       !.sessionId = IF status = "200"
                                     THEN requests[r].sessionId ELSE ""]

InitChat ==
    /\ artifact = AlignedArtifact(<<>>)
    /\ catalogFile = Catalog(<<>>)
    /\ Constructed
    /\ PagesIdle
    /\ ChunkerIdle
    /\ EmbedIdle
    /\ sessions = [s \in SessionIds |-> NoHistory]
    /\ requests = [r \in 1..MaxRequests |-> NewRequest]
    /\ written = [s \in SessionIds |-> <<>>]
    /\ together = {}

\* a request arrives: 400 without a question, else the first INSERT is awaited
Receive ==
    /\ Cardinality(InFlight) < MaxInFlight
    /\ \E r \in DOMAIN requests, sessionId \in SessionIds, question \in BOOLEAN :
          /\ requests[r].pc = "new"
          /\ \A x \in DOMAIN requests : x < r => requests[x].pc # "new"
          /\ IF ~question
             THEN /\ requests' = [requests EXCEPT ![r] = Answered(r, "400")]
                  /\ UNCHANGED together
             ELSE /\ requests' = [requests EXCEPT ![r] =
                                     [@ EXCEPT !.pc = "storeQuestion",
                                               !.sessionId = sessionId]]
                  /\ together' = together \cup
                        {{r, x} : x \in {y \in InFlight :
                                            requests[y].sessionId = sessionId}}
    /\ UNCHANGED <<sessions, written>>
    /\ UNCHANGED <<engineVars, pageVars, chunkVars, embedVars>>

\* the INSERT of the question settles; the session's history is read and
\* findRelevantContext called
QuestionStored ==
    /\ \E r \in DOMAIN requests, ok \in BOOLEAN :
          /\ requests[r].pc = "storeQuestion"
          /\ requests' = [requests EXCEPT ![r] =
                IF ~ok THEN Answered(r, "500")
                ELSE [@ EXCEPT !.pc = "findContext",
                               !.sessionHistory =
                                   SessionGet(requests[r].sessionId)]]
    /\ UNCHANGED <<sessions, written, together>>
    /\ UNCHANGED <<engineVars, pageVars, chunkVars, embedVars>>

\* findRelevantContext settles; the prompt is built and the completion asked
ContextFound ==
    /\ \E r \in DOMAIN requests, reply \in ProviderOutcomes :
          /\ requests[r].pc = "findContext"
          /\ requests' = [requests EXCEPT ![r] =
                IF ~reply.ok THEN Answered(r, "500")
                ELSE [@ EXCEPT !.pc = "completion"]]
    /\ UNCHANGED <<sessions, written, together>>
    /\ UNCHANGED <<engineVars, pageVars, chunkVars, embedVars>>

\* the completion settles; the INSERT of the answer is awaited
Completed ==
    /\ \E r \in DOMAIN requests, ok \in BOOLEAN :
          /\ requests[r].pc = "completion"
          /\ requests' = [requests EXCEPT ![r] =
                IF ~ok THEN Answered(r, "500")
                ELSE [@ EXCEPT !.pc = "storeAnswer", !.response = r]]
    /\ UNCHANGED <<sessions, written, together>>
    /\ UNCHANGED <<engineVars, pageVars, chunkVars, embedVars>>

\* the INSERT of the answer settles; the trimmed history is stored and the
\* request answered
AnswerStored ==
    /\ \E r \in DOMAIN requests, ok \in BOOLEAN :
          /\ requests[r].pc = "storeAnswer"
          /\ IF ~ok
             THEN /\ requests' = [requests EXCEPT ![r] = Answered(r, "500")]
                  /\ UNCHANGED <<sessions, written>>
             ELSE /\ sessions' = [sessions EXCEPT ![requests[r].sessionId] =
                        [set |-> TRUE,
                         history |-> NewHistory(requests[r].sessionHistory, r)]]
                  /\ written' = [written EXCEPT ![requests[r].sessionId] =
                                    Append(@, r)]
                  /\ requests' = [requests EXCEPT ![r] = Answered(r, "200")]
    /\ UNCHANGED together
    /\ UNCHANGED <<engineVars, pageVars, chunkVars, embedVars>>

NextChat == Receive \/ QuestionStored \/ ContextFound \/ Completed \/ AnswerStored

vars == <<engineVars, pageVars, chunkVars, embedVars, chatVars>>

Init == InitEngine

Next == Initialize \/ FindSimilarContent \/ FindRelevantContext

Spec == Init /\ [][Next]_vars
SpecRank == InitRank /\ [][Next]_vars
SpecAgg == InitAgg /\ [][Next]_vars
SpecPages == InitPages /\ [][CreatePageRanges]_vars
SpecChunker == InitChunker /\ [][SplitIntoChunks]_vars
SpecEmbed == InitEmbed /\ [][NextEmbed]_vars
SpecChat == InitChat /\ [][NextChat]_vars
SpecSelf == InitSelf /\ [][Initialize \/ QueryOwnVector]_vars

(***************************************************************************)
(* Properties.  Names used by the properties below.                        *)
(***************************************************************************)
IsQuery == call.op = "findSimilarContent" /\ IsArray(call.queryEmbedding)
IsContext == call.op = "findRelevantContext" /\ result.kind = "ok"

\* the stored entry at position i is a list of the query's dimensionality
ValidFor(q, i) ==
    /\ IsArray(embeddings[i])
    /\ Len(embeddings[i].v) = Len(q.v)

\* the entries a query q with source filter src ranks
Eligible(q, src) ==
    {i \in 1..Len(embeddings) :
        /\ ValidFor(q, i)
        /\ src # NoSource =>
              /\ i <= Len(chunkMetadata)
              /\ chunkMetadata[i].source = src}

ScoreOf(q, i) == cosineSimilarity(q.v, embeddings[i].v)

\* entry i ranks strictly before entry j: a higher score, or the same score
\* and an earlier position in the corpus
RanksBefore(q, i, j) ==
    \/ RatLess(ScoreOf(q, j), ScoreOf(q, i))
    \/ ScoreOf(q, i) = ScoreOf(q, j) /\ i < j

HitPositions(hits) == {hits[k].idx : k \in 1..Len(hits)}

\* C1: after a failed load every later query fails with an error; a failed
\* load never yields a result (stated as the claim has it: the code does not
\* satisfy it).
C1_FailedLoadFailsFast ==
    (initStatus = "rejected"
        /\ call.op \in {"findSimilarContent", "findRelevantContext"})
    => result.kind = "error"

\* C2: findSimilarContent returns at most k = 5 hits, and none of them comes
\* from a stored entry that is missing, not a list, or of a dimensionality
\* other than the query's; the query completes.
C2_AtMostKValidHits ==
    IsQuery =>
        /\ result.kind = "ok"
        /\ Len(result.value) <= TopK
        /\ \A k \in 1..Len(result.value) :
              /\ result.value[k].idx \in 1..Len(embeddings)
              /\ ValidFor(call.queryEmbedding, result.value[k].idx)

\* C2 witness: a query over a corpus holding a missing or non-list entry and
\* an entry of another dimensionality has returned the valid entries.
C2_Witness ==
    /\ IsQuery
    /\ \E i \in 1..Len(embeddings) : ~IsArray(embeddings[i])
    /\ \E i \in 1..Len(embeddings) :
          IsArray(embeddings[i]) /\ ~ValidFor(call.queryEmbedding, i)
    /\ Len(result.value) >= 3

\* C3: the hits are exactly the k = 5 best eligible entries (those matching
\* the source filter when one is given), in descending score order with ties
\* in corpus order; each hit carries the entry's score, text and metadata.
\* The result is therefore a function of the corpus and the query.
C3_TopKInOrder ==
    IsQuery =>
        LET q == call.queryEmbedding
            hits == result.value
            elig == Eligible(q, call.sourceName)
        IN /\ Len(hits) = Min(TopK, Cardinality(elig))
           /\ \A k \in 1..Len(hits) :
                 /\ hits[k].idx \in elig
                 /\ hits[k].score = ScoreOf(q, hits[k].idx)
                 /\ hits[k].text = texts[hits[k].idx]
                 /\ hits[k].metadata = chunkMetadata[hits[k].idx]
           /\ \A k \in 1..(Len(hits) - 1) :
                 RanksBefore(q, hits[k].idx, hits[k + 1].idx)
           /\ \A i \in elig \ HitPositions(hits) :
                 \A k \in 1..Len(hits) : RanksBefore(q, hits[k].idx, i)

\* C3 witness: a filtered query with more than k matching entries, among
\* them equal and different scores, and an entry of the other source that
\* outscores a returned hit.
C3_Witness ==
    /\ IsQuery
    /\ call.sourceName # NoSource
    /\ Cardinality(Eligible(call.queryEmbedding, call.sourceName)) > TopK
    /\ Len(result.value) = TopK
    /\ \E j, k \in 1..Len(result.value) :
          j < k /\ result.value[j].score # result.value[k].score
    /\ \E j, k \in 1..Len(result.value) :
          j < k /\ result.value[j].score = result.value[k].score

\* the hits the aggregation of the last findRelevantContext call was given
ContextHits == findSimilarContent(call.queryEmbedding, NoSource)

\* the hits of document d, as positions in the list of hits
DocHits(hits, d) ==
    {k \in 1..Len(hits) :
        hits[k].metadata.source # NoSource /\ DocIdOf(hits[k].metadata.source) = d}

\* the documents the hits resolve to
HitDocs(hits) ==
    {DocIdOf(hits[k].metadata.source) : k \in 1..Len(hits)} \ {0}

\* the maximum score among the hits of document d
TrueMax(hits, d) ==
    CHOOSE m \in {hits[k].score : k \in DocHits(hits, d)} :
        \A k \in DocHits(hits, d) : ~RatLess(m, hits[k].score)

\* the pages a list of range tokens stands for
PagesOf(tokens) == UNION {tokens[t].from .. tokens[t].to : t \in 1..Len(tokens)}

\* the hits of document d whose text went into the result r
UsedHits(hits, r) ==
    {k \in DocHits(hits, r.id) : \E t \in 1..Len(r.text) : r.text[t] = hits[k].text}

\* C4: the aggregation returns at most 2 results, each for a different
\* document, and each result's text and page tokens are built from at most 3
\* chunks of that document, the 3 highest-scoring ones.
C4_AtMostTwoDocsThreeChunks ==
    IsContext =>
        LET hits == ContextHits
            res == result.value
        IN /\ Len(res) <= MaxDocs
           /\ \A i, j \in 1..Len(res) : i # j => res[i].id # res[j].id
           /\ \A i \in 1..Len(res) :
                 LET all == DocHits(hits, res[i].id)
                     used == UsedHits(hits, res[i])
                 IN /\ Len(res[i].text) <= MaxChunksPerDoc
                    /\ Len(res[i].text) = Min(MaxChunksPerDoc, Cardinality(all))
                    /\ Cardinality(used) = Len(res[i].text)
                    /\ \A u \in used : \A k \in all \ used :
                          ~RatLess(hits[u].score, hits[k].score)
                    /\ PagesOf(res[i].pages) = {hits[u].metadata.page : u \in used}

\* C4 witness: a result built from 3 chunks of a document that has 4 hits.
C4_Witness ==
    /\ IsContext
    /\ \E i \in 1..Len(result.value) :
          /\ Len(result.value[i].text) = MaxChunksPerDoc
          /\ Cardinality(DocHits(ContextHits, result.value[i].id)) > MaxChunksPerDoc

\* C5: the kept documents are the 2 with the highest maximum hit score, in
\* order of decreasing maximum score: no dropped document has a higher
\* maximum than a kept one (stated as the claim has it: the code does not
\* satisfy it when a document's hits all score below zero).
C5_TopDocsByMaxScore ==
    IsContext =>
        LET hits == ContextHits
            res == result.value
            kept == {res[i].id : i \in 1..Len(res)}
        IN /\ Len(res) = Min(MaxDocs, Cardinality(HitDocs(hits)))
           /\ kept \subseteq HitDocs(hits)
           /\ \A i, j \in 1..Len(res) :
                 i < j => ~RatLess(TrueMax(hits, res[i].id), TrueMax(hits, res[j].id))
           /\ \A d \in HitDocs(hits) \ kept : \A i \in 1..Len(res) :
                 ~RatLess(TrueMax(hits, res[i].id), TrueMax(hits, d))

\* C6: the relevanceScore of every result is the maximum score among the
\* hits of its document (stated as the claim has it: the code does not
\* satisfy it when a document's hits all score below zero).
C6_RelevanceIsMaxScore ==
    IsContext =>
        \A i \in 1..Len(result.value) :
            result.value[i].relevanceScore = TrueMax(ContextHits, result.value[i].id)

\* the first page of each maximal run of consecutive pages of a set
RunStarts(S) == {n \in S : n - 1 \notin S}

\* C7: on an ascending list of distinct pages createPageRanges returns, in
\* ascending order, one token per maximal run of consecutive pages: a range
\* token for a run of two or more pages, the page itself for an isolated
\* one; the tokens cover exactly the input pages and no two adjacent tokens
\* could be merged.  [3,4,5,7,10,11] gives "3-5", 7, "10-11"; [] gives [];
\* [9] gives [9].
C7_MinimalPageRanges ==
    pagesDone =>
        LET S == {pagesArg[i] : i \in 1..Len(pagesArg)}
            r == pageRanges
        IN /\ Len(r) = Cardinality(RunStarts(S))
           /\ PagesOf(r) = S
           /\ \A t \in 1..Len(r) :
                 /\ r[t].kind = "range" => r[t].from < r[t].to
                 /\ r[t].kind = "page" => r[t].from = r[t].to
                 /\ r[t].kind \in {"range", "page"}
           /\ \A t \in 1..(Len(r) - 1) : r[t].to + 1 < r[t + 1].from
           /\ pagesArg = <<3, 4, 5, 7, 10, 11>> =>
                 r = <<RangeToken(3, 5), PageToken(7), RangeToken(10, 11)>>
           /\ pagesArg = <<>> => r = <<>>
           /\ pagesArg = <<9>> => r = <<PageToken(9)>>

\* C7 witness: the call on [3,4,5,7,10,11] has returned.
C7_Witness ==
    /\ pagesDone
    /\ pagesArg = <<3, 4, 5, 7, 10, 11>>
    /\ Len(pageRanges) = 3

\* the paragraphs of a text, in order
ParasOf(text) == SelectSeq(text, IsPara)

\* the paragraph is too large for a chunk on its own
Oversized(piece) == IsPara(piece) /\ piece.size > maxTokens

\* s[1] \o s[2] \o ... for a sequence of sequences
Concat(s) ==
    LET cat[i \in 0..Len(s)] == IF i = 0 THEN <<>> ELSE cat[i - 1] \o s[i]
    IN cat[Len(s)]

\* the paragraphs that are not empty, in page order then paragraph order
AllParagraphs ==
    Concat([d \in 1..Len(documents) |->
               SelectSeq([p \in 1..Len(documents[d].paragraphs) |->
                             Para(d, p, documents[d].paragraphs[p])],
                         LAMBDA piece : piece.size > 0)])

C9_ChunksOfOnePage ==
    chunksDone =>
        /\ \A k \in 1..Len(chunks) :
              /\ ParasOf(chunks[k].text) # <<>>
              /\ \E d \in 1..Len(documents) :
                    /\ \A t \in 1..Len(chunks[k].text) :
                          IF t % 2 = 1 THEN chunks[k].text[t].doc = d
                          ELSE chunks[k].text[t] = NL
                    /\ chunks[k].source = documents[d].title
                    /\ chunks[k].page = documents[d].page
                    /\ chunks[k].page >= 1
        /\ Concat([k \in 1..Len(chunks) |-> ParasOf(chunks[k].text)]) = AllParagraphs

\* C9 witness: two pages of one file have each given a chunk of several
\* paragraphs.
C9_Witness ==
    /\ chunksDone
    /\ \E j, k \in 1..Len(chunks) :
          /\ j < k
          /\ chunks[j].source = chunks[k].source
          /\ chunks[j].page = 1 /\ chunks[k].page = 2
          /\ Len(ParasOf(chunks[j].text)) >= 2
          /\ Len(ParasOf(chunks[k].text)) >= 2

\* the chunks whose request succeeds, in the order of the argument
Succeeding == Ascending((1..Len(embChunks)) \ failing)

\* C10: generateEmbeddings runs to its return whatever requests fail, and
\* returns exactly the chunks whose request succeeded, each with its own
\* vector, in the order of the argument; one request is issued per chunk, so
\* a failed chunk is not retried, and a failure removes no other chunk.
C10_SucceededChunksInOrder ==
    /\ embPc \in {"loop", "awaitAll", "pause"} => ENABLED NextEmbed
    /\ \A i \in 1..Len(issued) : issued[i] <= 1
    /\ embPc = "done" =>
          /\ Len(embOut) = Len(Succeeding)
          /\ \A k \in 1..Len(embOut) :
                /\ embOut[k].metadata.text = embChunks[Succeeding[k]].text
                /\ embOut[k].metadata.source = embChunks[Succeeding[k]].source
                /\ embOut[k].metadata.page = embChunks[Succeeding[k]].page
                /\ embOut[k].metadata.tokens = embChunks[Succeeding[k]].tokens
                /\ embOut[k].embedding = EmbeddingOf(embChunks[Succeeding[k]].text)
          /\ \A i \in 1..Len(issued) : issued[i] = 1

\* C10 witness: a run of two batches has returned with a failed request in
\* each batch and successful ones around them.
C10_Witness ==
    /\ embPc = "done"
    /\ Len(embChunks) > batchSize
    /\ \E i \in failing : i <= batchSize
    /\ \E i \in failing : i > batchSize
    /\ Len(embOut) >= batchSize - 2

\* the number of batches the chunks are cut into
BatchCount == (Len(embChunks) + batchSize - 1) \div batchSize

\* the chunks for which a request has been issued
Issued == {i \in 1..Len(issued) : issued[i] > 0}

\* C11: the batches of at most 20 chunks run one after the other: the
\* requests in flight all belong to the current batch, so at most 20 are in
\* flight; while a request of a batch is in flight or the batch is not yet
\* joined no request of a later batch has been issued, and every request of
\* the earlier batches has settled; one pause is taken before each batch but
\* the first, and none after the last batch.
C11_BatchesSequential ==
    /\ Cardinality(pending) <= batchSize
    /\ pending \subseteq BatchOf(batchStart)
    /\ Cardinality(BatchOf(batchStart)) <= batchSize
    /\ embPc \in {"awaitAll", "pause"} =>
          /\ Issued = 1..Min(batchStart + batchSize, Len(embChunks))
          /\ pauses = batchStart \div batchSize
    /\ embPc = "loop" =>
          /\ Issued = 1..Min(batchStart, Len(embChunks))
          /\ pending = {}
          /\ batchStart < Len(embChunks) => pauses = batchStart \div batchSize
    /\ embPc = "done" =>
          /\ pending = {}
          /\ pauses = IF BatchCount = 0 THEN 0 ELSE BatchCount - 1

\* C11 witness: a run of two batches of 20 and 2 chunks has returned after
\* one pause.
C11_Witness ==
    /\ embPc = "done"
    /\ Len(embChunks) = batchSize + 2
    /\ BatchCount = 2
    /\ pauses = 1

\* the load has been accepted: initialize() returned without throwing
Serving == initStatus = "resolved"

\* C12: whenever the load has been accepted the three containers have the
\* same length and position i of each holds the vector, text and metadata of
\* entry i of the artifact (stated as the claim has it: the code does not
\* satisfy it for an accepted artifact without texts or without metadata).
C12_ContainersAligned ==
    Serving =>
        /\ Len(texts) = Len(embeddings)
        /\ Len(chunkMetadata) = Len(embeddings)
        /\ \A i \in 1..Len(embeddings) :
              /\ embeddings[i] = artifact.embeddings.v[i]
              /\ texts[i] = artifact.texts.v[i]
              /\ chunkMetadata[i] = artifact.metadata.v[i]

\* C13: once loaded, the corpus and the catalog are what the load made of
\* the two files, whatever queries have been answered since: the same
\* elements in the same order; so the answer to a query is the one the
\* freshly loaded engine gives, whatever was answered before it.
C13_CorpusUnchangedByQueries ==
    Serving =>
        /\ embeddings = artifact.embeddings.v
        /\ texts = OrEmpty(artifact.texts)
        /\ chunkMetadata = OrEmpty(artifact.metadata)
        /\ metadata = LoadCatalog(catalogFile.records)
        /\ call.op = "findSimilarContent" =>
              result = Returned(findSimilarContent(call.queryEmbedding,
                                                   call.sourceName))
        /\ IsContext =>
              result = Returned(findRelevantContext(call.queryEmbedding))

\* C13 witness: a query has returned hits in another order than the corpus
\* holds them, and fewer than the corpus holds (ranked, filtered, cut).
C13_Witness ==
    /\ Serving
    /\ IsQuery
    /\ call.sourceName # NoSource
    /\ Len(result.value) = TopK
    /\ \E k \in 1..(Len(result.value) - 1) :
          result.value[k].idx > result.value[k + 1].idx
    /\ \E i \in 1..Len(chunkMetadata) : chunkMetadata[i].source # call.sourceName

\* the turns of a list of requests, question then answer, in that order
TurnsOf(rs) ==
    Concat([k \in 1..Len(rs) |-> <<UserTurn(rs[k]), AssistantTurn(rs[k])>>])

\* C14: the history kept for a session never holds more than 6 entries; it
\* is the last 6 entries of the turns made on that session, in the order
\* they were made; so it holds no turn of another session (stated as the
\* claim has it: the code does not satisfy it when two requests of one
\* session overlap, see C16).
C14_HistoryIsLastSix ==
    \A s \in SessionIds :
        LET history == sessions[s].history
        IN /\ Len(history) <= HistoryLimit
           /\ \A k \in 1..Len(history) :
                 requests[history[k].content].sessionId = s
           /\ history = LastN(TurnsOf(written[s]), HistoryLimit)

\* the request's question and answer are both in the history of its session
Remembered(r) ==
    LET history == sessions[requests[r].sessionId].history
    IN /\ \E k \in 1..Len(history) : history[k] = UserTurn(r)
       /\ \E k \in 1..Len(history) : history[k] = AssistantTurn(r)

\* the requests whose turns are the last n entries of a session's turns
LastWriters(s) ==
    LET rs == LastN(written[s], HistoryLimit \div 2)
    IN {rs[k] : k \in 1..Len(rs)}

\* C16: when two requests of one session that were in flight at the same
\* time have both been answered 200, the session's history holds the
\* question and answer of both, provided both are among the turns that the
\* trim to 6 entries keeps (stated as the claim has it: the code does not
\* satisfy it).
C16_NoLostUpdate ==
    \A pair \in together :
        \A s \in SessionIds :
            (\A r \in pair : requests[r].pc = "200" /\ requests[r].sessionId = s
                              /\ r \in LastWriters(s))
            => \A r \in pair : Remembered(r)

\* C17: when initialize() has thrown, at whatever step, the corpus and the
\* catalog are as the constructor left them: empty (stated as the claim has
\* it: the code does not satisfy it when the catalog file cannot be read).
C17_FailedLoadLeavesNothing ==
    initStatus = "rejected" =>
        /\ embeddings = <<>>
        /\ texts = <<>>
        /\ chunkMetadata = <<>>
        /\ metadata = <<>>

\* the stored entries whose vector is exactly the query of the last call
QueriedEntries ==
    {i \in 1..Len(embeddings) : embeddings[i] = call.queryEmbedding}

\* b is a times a positive number
SameDirection(a, b) ==
    /\ Len(a) = Len(b)
    /\ \A k, l \in 1..Len(a) : a[k] * b[l] = a[l] * b[k]
    /\ \E k \in 1..Len(a) : a[k] * b[k] > 0

\* the stored entries whose vector has the direction of the query
Parallel(q) ==
    {j \in 1..Len(embeddings) :
        IsArray(embeddings[j]) /\ SameDirection(embeddings[j].v, q.v)}

====
